---- MODULE Spec2Model ----
(***************************************************************************)
(* Model of generate_samsung_tvplus.py: the channel filter, the M3U        *)
(* playlist formatter and the linear fetch / filter / format / write       *)
(* pipeline of main().                                                     *)
(*                                                                         *)
(* Data representation                                                     *)
(*   str            a sequence of code points (32 = ' ', 44 = ',', ...)    *)
(*   optional key   <<>> when the key is absent from the dict, <<v>> when  *)
(*                  it is present with value v                             *)
(*   dict           a sequence of <<key, value>> pairs with distinct keys,  *)
(*                  in insertion order (Python dicts iterate in insertion  *)
(*                  order)                                                 *)
(***************************************************************************)
EXTENDS Integers, Sequences, FiniteSets, TLC

VARIABLES
    DEFAULT_REGIONS,    \* os.getenv('REGIONS', 'all')
    DEFAULT_GROUPS,     \* os.getenv('GROUPS', '')
    INCLUDE_DRM,        \* os.getenv('INCLUDE_DRM', 'true').lower() == 'true'
    START_CHNO,         \* int(os.getenv('START_CHNO', '1'))
    SORT_BY,            \* os.getenv('SORT_BY', 'chno')
    pc,                 \* the statement main() is at
    data,               \* the parsed catalog
    regions,            \* the parsed region selector
    groups,             \* the parsed group selector
    channels,           \* the channel dict returned by filter_channels
    playlist_content,   \* the lines returned by generate_m3u_playlist
    current_chno,       \* generate_m3u_playlist's sequential counter at its end
    error,              \* the exception raised, NoError when none
    remote_catalog,     \* what the server answers at APP_URL
    remote_epg,         \* what the server answers at EPG_URL
    response,           \* response.content of the download in progress
    json_data,          \* the decompressed catalog bytes
    epg_content,        \* the decompressed EPG bytes
    playlist_file,      \* content of output/samsung_tvplus.m3u
    epg_file,           \* content of output/samsung_tvplus.xml
    readme_file,        \* content of output/README.md
    stdout,             \* the messages printed
    trace               \* the statements of main() executed so far

cfgvars == <<DEFAULT_REGIONS, DEFAULT_GROUPS, INCLUDE_DRM, START_CHNO, SORT_BY>>

callvars == <<pc, data, regions, groups, channels, playlist_content, current_chno, error>>

netvars == <<remote_catalog, remote_epg, response, json_data, epg_content>>

filevars == <<playlist_file, epg_file, readme_file>>

iovars == <<netvars, filevars, stdout, trace>>

(***************************************************************************)
(* Strings                                                                 *)
(***************************************************************************)
S_all == <<97, 108, 108>>
S_us == <<117, 115>>
S_uk == <<117, 107>>
S_de == <<100, 101>>
S_News == <<78, 101, 119, 115>>
S_news == <<110, 101, 119, 115>>
S_NEWS == <<78, 69, 87, 83>>
S_Sport == <<83, 112, 111, 114, 116>>
S_sport == <<115, 112, 111, 114, 116>>
S_Kids == <<75, 105, 100, 115>>
Comma == <<44>>
Space == <<32>>

\* str.lower() on one code point (ASCII letters)
LowerChar(c) == IF c >= 65 /\ c <= 90 THEN c + 32 ELSE c

\* str.lower()
Lower(s) == [i \in 1..Len(s) |-> LowerChar(s[i])]

IsSpace(c) == c \in {9, 10, 13, 32}

RECURSIVE LStrip(_)
LStrip(s) == IF s # <<>> /\ IsSpace(Head(s)) THEN LStrip(Tail(s)) ELSE s

RECURSIVE RStrip(_)
RStrip(s) ==
    IF s # <<>> /\ IsSpace(s[Len(s)]) THEN RStrip(SubSeq(s, 1, Len(s) - 1)) ELSE s

\* str.strip()
Strip(s) == RStrip(LStrip(s))

\* str.split(','): the pieces between commas, empty pieces kept
RECURSIVE SplitFrom(_, _, _)
SplitFrom(s, i, cur) ==
    IF i > Len(s) THEN <<cur>>
    ELSE IF s[i] = 44 THEN <<cur>> \o SplitFrom(s, i + 1, <<>>)
    ELSE SplitFrom(s, i + 1, Append(cur, s[i]))

Split(s) == SplitFrom(s, 1, <<>>)

\* [x.strip() for x in s.split(',') if x.strip()]
StripNonEmpty(parts) ==
    LET keep(p) == Strip(p) # <<>>
        kept == SelectSeq(parts, keep)
    IN  [i \in 1..Len(kept) |-> Strip(kept[i])]

\* str < str: lexicographic on code points
RECURSIVE StrLess(_, _)
StrLess(s, t) ==
    IF t = <<>> THEN FALSE
    ELSE IF s = <<>> THEN TRUE
    ELSE IF Head(s) # Head(t) THEN Head(s) < Head(t)
    ELSE StrLess(Tail(s), Tail(t))

(***************************************************************************)
(* Dicts                                                                   *)
(***************************************************************************)
Keys(d) == [i \in 1..Len(d) |-> d[i][1]]

KeySet(d) == {d[i][1] : i \in 1..Len(d)}

HasKey(d, k) == k \in KeySet(d)

Lookup(d, k) == d[CHOOSE i \in 1..Len(d) : d[i][1] = k][2]

\* d.setdefault(k, v): the first value of a key is kept
SetItemKeepFirst(d, k, v) == IF k \in {d[i][1] : i \in 1..Len(d)} THEN d ELSE Append(d, <<k, v>>)

\* d[k] = v: an existing key keeps its position, a new key is appended
SetItem(d, k, v) ==
    IF HasKey(d, k)
    THEN [i \in 1..Len(d) |-> IF d[i][1] = k THEN <<k, v>> ELSE d[i]]
    ELSE Append(d, <<k, v>>)

\* d.update(other)
RECURSIVE Update(_, _)
Update(d, other) ==
    IF other = <<>> THEN d
    ELSE Update(SetItem(d, Head(other)[1], Head(other)[2]), Tail(other))

\* x in list
InList(x, l) == \E i \in 1..Len(l) : l[i] = x

(***************************************************************************)
(* filter_channels                                                         *)
(***************************************************************************)
\* regions = [r.strip() for r in DEFAULT_REGIONS.split(',') if r.strip()]
ParseRegions(env) == StripNonEmpty(Split(env))

\* groups = [...] if DEFAULT_GROUPS else []
ParseGroups(env) == IF env # <<>> THEN StripNonEmpty(Split(env)) ELSE <<>>

\* if regions == ['all']: regions = list(data['regions'].keys())
ExpandRegions(d, rs) == IF rs = <<S_all>> THEN Keys(d.regions[1]) ELSE rs

\* data['regions'][region].get('channels', {})
RegionChannels(d, region) ==
    LET rec == Lookup(d.regions[1], region)
    IN  IF rec.channels = <<>> THEN <<>> ELSE rec.channels[1]

\* for region in regions: if region in data['regions']: channels.update(...)
RECURSIVE MergeRegions(_, _, _)
MergeRegions(d, rs, acc) ==
    IF rs = <<>> THEN acc
    ELSE IF HasKey(d.regions[1], Head(rs))
         THEN MergeRegions(d, Tail(rs), Update(acc, RegionChannels(d, Head(rs))))
         ELSE MergeRegions(d, Tail(rs), acc)

\* channel.get('group', '')
GroupOf(channel) == IF channel.group = <<>> THEN <<>> ELSE channel.group[1]

\* channel.get('group', '') in groups: the comparison without .lower()
GroupMatchesCaseSensitive(channel, gs) == InList(GroupOf(channel), gs)

\* channel.get('group', '').lower() in [g.lower() for g in groups]
GroupMatches(channel, gs) ==
    InList(Lower(GroupOf(channel)), [i \in 1..Len(gs) |-> Lower(gs[i])])

\* if groups: keep the channels whose group matches, in dict order
FilterGroups(chs, gs) ==
    IF gs # <<>>
    THEN LET keep(kv) == GroupMatches(kv[2], gs) IN SelectSeq(chs, keep)
    ELSE chs

filter_channels(d, rs, gs) ==
    FilterGroups(MergeRegions(d, ExpandRegions(d, rs), <<>>), gs)

(***************************************************************************)
(* generate_m3u_playlist                                                   *)
(* A playlist is modelled as the sequence of its lines (the text is the    *)
(* lines joined by '\n'); a line is a record naming its parts.             *)
(***************************************************************************)
SENTINEL == 999999

DRM_MARK == <<32, 91, 68, 82, 77, 93>>

NoError == "none"

\* truthiness of channel.get('license_url'): present and not the empty string
HasLicense(channel) == channel.license_url # <<>> /\ channel.license_url[1] # <<>>

\* truthiness of channel.get('chno'): present and not 0
HasChno(channel) == channel.chno # <<>> /\ channel.chno[1] # 0

\* key=lambda x: x[1]['name'].strip().lower()
NameKey(channel) == Lower(Strip(channel.name[1]))

\* key=lambda x: x[1].get('chno', 0): a missing number sorts first
ChnoKeyZero(channel) == IF channel.chno = <<>> THEN 0 ELSE channel.chno[1]

\* key=lambda x: x[1].get('chno', 999999)
ChnoKey(channel) == IF channel.chno = <<>> THEN SENTINEL ELSE channel.chno[1]

\* key(a) < key(b) under the configured sort
KeyLess(a, b) ==
    IF SORT_BY = "name" THEN StrLess(NameKey(a), NameKey(b))
    ELSE ChnoKey(a) < ChnoKey(b)

\* sorted() is stable: an item goes before the first item with a greater key
RECURSIVE InsertStable(_, _)
InsertStable(sorted, kv) ==
    IF sorted = <<>> THEN <<kv>>
    ELSE IF KeyLess(kv[2], Head(sorted)[2]) THEN <<kv>> \o sorted
    ELSE <<Head(sorted)>> \o InsertStable(Tail(sorted), kv)

RECURSIVE SortedItems(_, _)
SortedItems(items, acc) ==
    IF items = <<>> THEN acc
    ELSE SortedItems(Tail(items), InsertStable(acc, Head(items)))

\* channels.items(): the sorted result is not used
UnsortedChannels(chs) == chs

\* sorted(channels.items(), key=...)
sorted_channels(chs) == SortedItems(chs, <<>>)

\* x[1]['name'] raises KeyError for a channel without a name
SortRaises(chs) ==
    SORT_BY = "name" /\ \E i \in 1..Len(chs) : chs[i][2].name = <<>>

\* if channel.get('license_url') and INCLUDE_DRM: continue (the flag inverted)
SkippedWhenIncluded(channel) == HasLicense(channel) /\ INCLUDE_DRM

\* if channel.get('license_url') and not INCLUDE_DRM: continue
Skipped(channel) == HasLicense(channel) /\ ~INCLUDE_DRM

\* channel['name'], channel['logo'], channel['group'], data['slug']
EntryRaises(d, channel) ==
    \/ channel.name = <<>>
    \/ channel.logo = <<>>
    \/ channel.group = <<>>
    \/ d.slug = <<>>

\* if channel.get('chno'): the native number honoured whatever START_CHNO is
UsesNativeAlways(channel) == HasChno(channel)

\* if channel.get('chno') and START_CHNO == 1
UsesNative(channel) == HasChno(channel) /\ START_CHNO = 1

\* chno = channel['chno'] / chno = current_chno
AssignedChno(channel, counter) ==
    IF UsesNative(channel) THEN channel.chno[1] ELSE counter

\* current_chno += 1 on the sequential branch only
NextChno(channel, counter) ==
    IF UsesNative(channel) THEN counter ELSE counter + 1

\* name = f"{name} [DRM]" for a channel with a license URL
DisplayName(channel) ==
    IF HasLicense(channel) THEN channel.name[1] \o DRM_MARK ELSE channel.name[1]

\* the #EXTINF line; drm="true" license-url=... only with a license URL
ExtInfLine(channel_id, channel, chno) ==
    [kind |-> "EXTINF",
     tvg_id |-> channel_id,
     tvg_name |-> DisplayName(channel),
     tvg_logo |-> channel.logo[1],
     group_title |-> channel.group[1],
     tvg_chno |-> chno,
     license_url |-> IF HasLicense(channel) THEN channel.license_url ELSE <<>>,
     title |-> DisplayName(channel)]

\* PLAYBACK_URL.format(slug=data['slug'].format(id=channel_id))
UrlLine(d, channel_id) ==
    [kind |-> "URL", base |-> "https://jmp2.uk/", slug |-> d.slug[1], id |-> channel_id]

HeaderLine == [kind |-> "EXTM3U"]

\* for channel_id, channel in sorted_channels: ...
RECURSIVE EmitLoop(_, _, _, _)
EmitLoop(d, items, counter, lines) ==
    IF items = <<>> THEN [err |-> NoError, lines |-> lines, current_chno |-> counter]
    ELSE LET channel_id == Head(items)[1]
             channel == Head(items)[2]
         IN  IF Skipped(channel)
             THEN EmitLoop(d, Tail(items), counter, lines)
             ELSE IF EntryRaises(d, channel)
             THEN [err |-> "KeyError", lines |-> lines, current_chno |-> counter]
             ELSE EmitLoop(d, Tail(items), NextChno(channel, counter),
                           lines \o <<ExtInfLine(channel_id, channel,
                                                 AssignedChno(channel, counter)),
                                      UrlLine(d, channel_id)>>)

generate_m3u_playlist(d, chs) ==
    IF SortRaises(chs)
    THEN [err |-> "KeyError", lines |-> <<HeaderLine>>, current_chno |-> START_CHNO]
    ELSE EmitLoop(d, sorted_channels(chs), START_CHNO, <<HeaderLine>>)

(***************************************************************************)
(* Inputs                                                                  *)
(***************************************************************************)
MaxChannels == 2

MaxRegions == 2

S_A == <<65>>
S_B == <<66>>
S_b == <<98>>
S_sp_a == <<32, 97>>
S_c == <<99>>
S_D == <<68>>
S_logo == <<108>>
S_http == <<104>>
S_slug == <<115>>

Ch(name, group, chno, license_url) ==
    [name |-> name, logo |-> <<S_logo>>, group |-> group, chno |-> chno,
     license_url |-> license_url]

\* channel records: native number present / 0 / absent / at and above the sort
\* sentinel; licence URL present / empty / absent; group in several cases / absent
ChannelPool ==
    { Ch(<<S_B>>, <<S_News>>, <<5>>, <<>>),
      Ch(<<S_sp_a>>, <<S_sport>>, <<0>>, <<>>),
      Ch(<<S_A>>, <<S_NEWS>>, <<>>, <<S_http>>),
      Ch(<<S_b>>, <<S_Sport>>, <<3>>, <<S_http>>),
      Ch(<<S_c>>, <<S_Kids>>, <<SENTINEL + 1>>, <<<<>>>>),
      Ch(<<S_D>>, <<S_news>>, <<>>, <<>>),
      Ch(<<S_A>>, <<>>, <<2>>, <<>>),
      Ch(<<S_c>>, <<S_Sport>>, <<SENTINEL>>, <<>>) }

ChannelIds == {"a", "b", "c"}

\* the dicts of at most n channels
ChannelDicts(n) ==
    UNION { { d \in [1..k -> ChannelIds \X ChannelPool] :
                \A i, j \in 1..k : i # j => d[i][1] # d[j][1] } : k \in 0..n }

P_News == Ch(<<S_B>>, <<S_News>>, <<5>>, <<>>)
P_sport == Ch(<<S_sp_a>>, <<S_sport>>, <<0>>, <<>>)
P_NEWS_drm == Ch(<<S_A>>, <<S_NEWS>>, <<>>, <<S_http>>)
P_Kids == Ch(<<S_c>>, <<S_Kids>>, <<SENTINEL + 1>>, <<<<>>>>)
P_nogroup == Ch(<<S_A>>, <<>>, <<2>>, <<>>)

\* region records: colliding identifiers in different orders, an empty
\* channel dict, and a region without a 'channels' key
RegionPool ==
    { [channels |-> << << <<"a", P_News>>, <<"b", P_sport>> >> >>],
      [channels |-> << << <<"b", P_NEWS_drm>>, <<"a", P_nogroup>> >> >>],
      [channels |-> << << <<"c", P_Kids>>, <<"a", P_sport>> >> >>],
      [channels |-> << << <<"b", P_News>> >> >>],
      [channels |-> << <<>> >>],
      [channels |-> <<>>] }

RegionCodes == {S_us, S_uk, S_de}

\* the catalogs of at most n regions, each with a slug template
Catalogs(n) ==
    { [regions |-> <<r>>, slug |-> <<S_slug>>] :
        r \in UNION { { d \in [1..k -> RegionCodes \X RegionPool] :
                          \A i, j \in 1..k : i # j => d[i][1] # d[j][1] } : k \in 0..n } }

RegionEnvs ==
    { S_all, S_us, S_uk \o Comma \o S_us, Space \o S_de \o Space \o Comma,
      S_us \o Comma \o S_all }

GroupEnvs ==
    { <<>>, S_news, S_NEWS \o Comma \o Space \o S_Sport, S_Kids \o Comma \o Comma,
      Comma \o Space }

NoData == [regions |-> <<>>, slug |-> <<>>]

\* nothing downloaded yet
NoResponse == [gzip_ok |-> FALSE, body |-> <<>>]

\* the output files as the previous run left them
OldPlaylist == <<[kind |-> "OLD"]>>

OldEpg == <<0>>

OldReadme == <<[kind |-> "OLD"]>>

(***************************************************************************)
(* filter_channels on every catalog and selector within the bounds         *)
(***************************************************************************)
FilterInit ==
    /\ DEFAULT_REGIONS \in RegionEnvs
    /\ DEFAULT_GROUPS \in GroupEnvs
    /\ INCLUDE_DRM = TRUE
    /\ START_CHNO = 1
    /\ SORT_BY = "chno"
    /\ pc = "parse_config"
    /\ data \in Catalogs(MaxRegions)
    /\ regions = <<>>
    /\ groups = <<>>
    /\ channels = <<>>
    /\ playlist_content = <<>>
    /\ current_chno = 0
    /\ error = NoError
    /\ remote_catalog = NoResponse
    /\ remote_epg = NoResponse
    /\ response = NoResponse
    /\ json_data = [json_ok |-> FALSE, value |-> NoData]
    /\ epg_content = <<>>
    /\ playlist_file = OldPlaylist
    /\ epg_file = OldEpg
    /\ readme_file = OldReadme
    /\ stdout = <<>>
    /\ trace = <<>>

\* main(), lines 191-192
ParseConfig ==
    /\ pc = "parse_config"
    /\ regions' = ParseRegions(DEFAULT_REGIONS)
    /\ groups' = ParseGroups(DEFAULT_GROUPS)
    /\ pc' = "filter_channels"
    /\ UNCHANGED <<cfgvars, data, channels, playlist_content, current_chno, error, iovars>>

\* channels = filter_channels(data, regions, groups)
CallFilter ==
    /\ pc = "filter_channels"
    /\ channels' = filter_channels(data, regions, groups)
    /\ pc' = "filtered"
    /\ UNCHANGED <<cfgvars, data, regions, groups, playlist_content, current_chno, error, iovars>>

FilterNext == ParseConfig \/ CallFilter

vars == <<cfgvars, callvars, iovars>>

SpecFilter == FilterInit /\ [][FilterNext]_vars

(***************************************************************************)
(* generate_m3u_playlist on every channel dict and configuration within    *)
(* the bounds                                                              *)
(***************************************************************************)
StartChnos == {0, 1, 5}

PlaylistInit ==
    /\ DEFAULT_REGIONS = S_all
    /\ DEFAULT_GROUPS = <<>>
    /\ INCLUDE_DRM \in BOOLEAN
    /\ START_CHNO \in StartChnos
    /\ SORT_BY \in {"chno", "name"}
    /\ pc = "generate_m3u_playlist"
    /\ data = [regions |-> <<>>, slug |-> <<S_slug>>]
    /\ regions = <<S_all>>
    /\ groups = <<>>
    /\ channels \in ChannelDicts(MaxChannels)
    /\ playlist_content = <<>>
    /\ current_chno = 0
    /\ error = NoError
    /\ remote_catalog = NoResponse
    /\ remote_epg = NoResponse
    /\ response = NoResponse
    /\ json_data = [json_ok |-> FALSE, value |-> NoData]
    /\ epg_content = <<>>
    /\ playlist_file = OldPlaylist
    /\ epg_file = OldEpg
    /\ readme_file = OldReadme
    /\ stdout = <<>>
    /\ trace = <<>>

\* playlist_content = generate_m3u_playlist(data, channels)
CallGenerate ==
    /\ pc = "generate_m3u_playlist"
    /\ LET r == generate_m3u_playlist(data, channels)
       IN  /\ error' = r.err
           /\ current_chno' = r.current_chno
           /\ IF r.err = NoError
              THEN playlist_content' = r.lines /\ pc' = "generated"
              ELSE playlist_content' = playlist_content /\ pc' = "raised"
    /\ UNCHANGED <<cfgvars, data, regions, groups, channels, iovars>>

PlaylistNext == CallGenerate

SpecPlaylist == PlaylistInit /\ [][PlaylistNext]_vars

(***************************************************************************)
(* Properties of filter_channels (checked under SpecFilter)                *)
(***************************************************************************)
\* the channel dict of the i-th region of the catalog, in iteration order
RegionDictAt(i) ==
    LET rec == data.regions[1][i][2]
    IN  IF rec.channels = <<>> THEN <<>> ELSE rec.channels[1]

NumRegions == Len(data.regions[1])

\* the last region, in iteration order, that holds identifier id
LastRegionWith(id) ==
    CHOOSE i \in 1..NumRegions :
        /\ id \in KeySet(RegionDictAt(i))
        /\ \A j \in (i + 1)..NumRegions : id \notin KeySet(RegionDictAt(j))

DistinctKeys(d) == \A i, j \in 1..Len(d) : i # j => d[i][1] # d[j][1]

\* C1: with the region selector ['all'] and no group selector, filter_channels
\* returns exactly the union of every region's channel mapping, and an
\* identifier held by several regions keeps the record of the region that
\* comes last in catalog iteration order.
C1_AllRegionsUnion ==
    (pc = "filtered" /\ regions = <<S_all>> /\ groups = <<>>) =>
        /\ DistinctKeys(channels)
        /\ KeySet(channels) = UNION { KeySet(RegionDictAt(i)) : i \in 1..NumRegions }
        /\ \A id \in KeySet(channels) :
              Lookup(channels, id) = Lookup(RegionDictAt(LastRegionWith(id)), id)

\* an identifier is held by two regions with different records
C1_Witness ==
    /\ pc = "filtered" /\ regions = <<S_all>> /\ groups = <<>>
    /\ \E i, j \in 1..NumRegions : \E id \in KeySet(RegionDictAt(i)) :
          /\ i < j
          /\ id \in KeySet(RegionDictAt(j))
          /\ Lookup(RegionDictAt(i), id) # Lookup(RegionDictAt(j), id)
          /\ Lookup(channels, id) = Lookup(RegionDictAt(j), id)

\* the merged channels of the selected regions, before the group filter
Merged == MergeRegions(data, ExpandRegions(data, regions), <<>>)

\* the channel has a group label equal, ignoring case, to a selector label
LabelSelected(channel) ==
    /\ channel.group # <<>>
    /\ \E i \in 1..Len(groups) : Lower(channel.group[1]) = Lower(groups[i])

\* C2: with a non-empty group selector, filter_channels returns exactly the
\* merged channels whose group label equals a selector label ignoring case:
\* nothing else is retained (a missing label never matches) and no matching
\* merged channel is dropped.
C2_GroupFilterExact ==
    (pc = "filtered" /\ groups # <<>>) =>
        /\ DistinctKeys(channels)
        /\ \A i \in 1..Len(channels) : InList(channels[i], Merged)
        /\ \A i \in 1..Len(Merged) :
              InList(Merged[i], channels) <=> LabelSelected(Merged[i][2])

\* one channel is retained on a label that differs from the selector in case,
\* one is dropped for a missing label
C2_Witness ==
    /\ pc = "filtered" /\ groups # <<>>
    /\ \E i \in 1..Len(channels) :
          /\ ~InList(channels[i][2].group[1], groups)
          /\ LabelSelected(channels[i][2])
    /\ \E i \in 1..Len(Merged) :
          Merged[i][2].group = <<>> /\ ~InList(Merged[i], channels)

(***************************************************************************)
(* Properties of generate_m3u_playlist (checked under SpecPlaylist)        *)
(***************************************************************************)
EndsWith(s, suffix) ==
    /\ Len(s) >= Len(suffix)
    /\ SubSeq(s, Len(s) - Len(suffix) + 1, Len(s)) = suffix

\* the metadata lines of the playlist, in output order
ExtInfs == LET isExtInf(l) == l.kind = "EXTINF" IN SelectSeq(playlist_content, isExtInf)

\* the channel record an entry was made from
ChannelOf(line) == Lookup(channels, line.tvg_id)

\* the channel carries a DRM licence URL
Licensed(channel) == channel.license_url # <<>> /\ channel.license_url[1] # <<>>

\* the channels of the input that are not skipped for DRM
Survives(channel) == ~(Licensed(channel) /\ ~INCLUDE_DRM)

\* C3: when INCLUDE_DRM is false, no emitted entry carries a license-url
\* attribute or the " [DRM]" name marker.
C3_NoDrmWhenExcluded ==
    (pc = "generated" /\ ~INCLUDE_DRM) =>
        \A i \in 1..Len(ExtInfs) :
            /\ ExtInfs[i].license_url = <<>>
            /\ ~EndsWith(ExtInfs[i].tvg_name, DRM_MARK)
            /\ ~EndsWith(ExtInfs[i].title, DRM_MARK)

\* a DRM channel was given and skipped while another channel was emitted
C3_Witness ==
    /\ pc = "generated" /\ ~INCLUDE_DRM
    /\ \E i \in 1..Len(channels) : Licensed(channels[i][2])
    /\ Len(ExtInfs) >= 1

\* the emitted entries whose channel has no native number
Unnumbered ==
    LET noNative(l) == ChannelOf(l).chno = <<>> IN SelectSeq(ExtInfs, noNative)

\* C4: when START_CHNO is 1, every emitted channel with a native number N (any
\* integer present in its record) gets tvg-chno = N, and emitting it does not
\* advance the sequential counter.
C4_NativeNumberKept ==
    (pc = "generated" /\ START_CHNO = 1) =>
        /\ \A i \in 1..Len(ExtInfs) :
              ChannelOf(ExtInfs[i]).chno # <<>> =>
                  ExtInfs[i].tvg_chno = ChannelOf(ExtInfs[i]).chno[1]
        /\ current_chno = 1 + Len(Unnumbered)

\* C5: when START_CHNO is S # 1, the k-th emitted entry (k = 0, 1, ...) has
\* tvg-chno = S + k whatever its native number, and a DRM channel skipped
\* because INCLUDE_DRM is false consumes no number.
C5_SequentialNumbers ==
    (pc = "generated" /\ START_CHNO # 1) =>
        /\ \A k \in 1..Len(ExtInfs) : ExtInfs[k].tvg_chno = START_CHNO + (k - 1)
        /\ Len(ExtInfs) = Cardinality({i \in 1..Len(channels) : Survives(channels[i][2])})
        /\ current_chno = START_CHNO + Len(ExtInfs)

\* a DRM channel is skipped and an emitted channel's native number is overridden
C5_Witness ==
    /\ pc = "generated" /\ START_CHNO # 1
    /\ \E i \in 1..Len(channels) : ~Survives(channels[i][2])
    /\ \E k \in 1..Len(ExtInfs) :
          /\ ChannelOf(ExtInfs[k]).chno # <<>>
          /\ ChannelOf(ExtInfs[k]).chno[1] # ExtInfs[k].tvg_chno

\* C6: when SORT_BY is "chno", entries are in ascending native number and every
\* channel without a native number comes after every channel that has one,
\* whatever the native numbers are.
C6_MissingNumberLast ==
    (pc = "generated" /\ SORT_BY = "chno") =>
        \A i, j \in 1..Len(ExtInfs) : i < j =>
            LET a == ChannelOf(ExtInfs[i]).chno
                b == ChannelOf(ExtInfs[j]).chno
            IN  /\ (a # <<>> /\ b # <<>>) => a[1] <= b[1]
                /\ ~(a = <<>> /\ b # <<>>)

\* the number an entry is ordered by: the native one, 999999 when missing
OrderNumber(line) ==
    LET c == ChannelOf(line).chno IN IF c = <<>> THEN 999999 ELSE c[1]

\* C6 (amended): when SORT_BY is "chno", entries are in ascending order of
\* native number with a missing number counted as 999999; so a channel without
\* a native number comes after every channel whose native number is below
\* 999999.
C6_MissingNumberAsSentinel ==
    (pc = "generated" /\ SORT_BY = "chno") =>
        \A i, j \in 1..Len(ExtInfs) : i < j =>
            LET a == ChannelOf(ExtInfs[i]).chno
                b == ChannelOf(ExtInfs[j]).chno
            IN  /\ OrderNumber(ExtInfs[i]) <= OrderNumber(ExtInfs[j])
                /\ ~(a = <<>> /\ b # <<>> /\ b[1] < 999999)

\* a channel without a number was given first and is emitted after a numbered one
C6_Witness ==
    /\ pc = "generated" /\ SORT_BY = "chno"
    /\ Len(channels) = 2 /\ Len(ExtInfs) = 2
    /\ channels[1][2].chno = <<>>
    /\ channels[2][2].chno # <<>>
    /\ ExtInfs[1].tvg_id = channels[2][1]
    /\ ExtInfs[2].tvg_id = channels[1][1]

\* position of identifier id in the input dict
IndexOf(id) == CHOOSE i \in 1..Len(channels) : channels[i][1] = id

\* C7: the playlist is the header line followed by one metadata line and one
\* URL line for each channel that is not skipped for DRM, for no other
\* channel, none twice, in the sort order (ascending key, equal keys in input
\* order).
C7_OnePairPerSurvivor ==
    pc = "generated" =>
        LET n == Len(ExtInfs) IN
        /\ playlist_content[1] = HeaderLine
        /\ Len(playlist_content) = 1 + 2 * n
        /\ \A k \in 1..n :
              /\ playlist_content[2 * k] = ExtInfs[k]
              /\ playlist_content[2 * k + 1].kind = "URL"
              /\ playlist_content[2 * k + 1].id = ExtInfs[k].tvg_id
        /\ {ExtInfs[k].tvg_id : k \in 1..n}
              = {channels[i][1] : i \in {i \in 1..Len(channels) : Survives(channels[i][2])}}
        /\ \A k, m \in 1..n : k # m => ExtInfs[k].tvg_id # ExtInfs[m].tvg_id
        /\ \A k, m \in 1..n : k < m =>
              /\ ~KeyLess(ChannelOf(ExtInfs[m]), ChannelOf(ExtInfs[k]))
              /\ KeyLess(ChannelOf(ExtInfs[k]), ChannelOf(ExtInfs[m]))
                    \/ IndexOf(ExtInfs[k].tvg_id) < IndexOf(ExtInfs[m].tvg_id)

\* two channels survive and the sort puts the second of the input first
C7_Witness ==
    /\ pc = "generated"
    /\ Len(ExtInfs) = 2
    /\ IndexOf(ExtInfs[1].tvg_id) > IndexOf(ExtInfs[2].tvg_id)
    /\ Len(playlist_content) = 5

(***************************************************************************)
(* main(): one run of the pipeline                                         *)
(***************************************************************************)
CatGood ==
    [regions |-> << << <<S_us, [channels |-> << << <<"a", P_News>>, <<"b", P_NEWS_drm>> >> >>]>>,
                       <<S_uk, [channels |-> << << <<"b", P_sport>>, <<"c", P_Kids>> >> >>]>> >> >>,
     slug |-> <<S_slug>>]

CatNoGroup ==
    [regions |-> << << <<S_us, [channels |-> << << <<"a", P_nogroup>>, <<"b", P_News>> >> >>]>> >> >>,
     slug |-> <<S_slug>>]

CatNoRegions == [regions |-> <<>>, slug |-> <<S_slug>>]

CatNoSlug ==
    [regions |-> << << <<S_us, [channels |-> << << <<"a", P_News>> >> >>]>> >> >>,
     slug |-> <<>>]

\* what APP_URL may serve: not gzip, gzip of something that is not JSON, or
\* the gzip of a catalog
RemoteCatalogs ==
    { [gzip_ok |-> FALSE, body |-> [json_ok |-> FALSE, value |-> NoData]],
      [gzip_ok |-> TRUE, body |-> [json_ok |-> FALSE, value |-> NoData]] }
    \cup { [gzip_ok |-> TRUE, body |-> [json_ok |-> TRUE, value |-> c]] :
             c \in {CatGood, CatNoGroup, CatNoRegions, CatNoSlug} }

\* what EPG_URL may serve
RemoteEpgs ==
    { [gzip_ok |-> FALSE, body |-> <<>>],
      [gzip_ok |-> TRUE, body |-> <<60, 10, 62>>],
      [gzip_ok |-> TRUE, body |-> <<60, 62, 10, 10>>] }

\* the regions the server has an EPG for; any other answers 404
KnownEpgRegions == {S_all, S_us, S_uk}

MainRegionEnvs == {S_all, S_us, S_uk \o Comma \o S_us, Space \o S_de \o Space \o Comma}

MainGroupEnvs == {<<>>, S_news}

Init ==
    /\ DEFAULT_REGIONS \in MainRegionEnvs
    /\ DEFAULT_GROUPS \in MainGroupEnvs
    /\ INCLUDE_DRM \in BOOLEAN
    /\ START_CHNO \in {1, 5}
    /\ SORT_BY \in {"chno", "name"}
    /\ pc = "parse_config"
    /\ data = NoData
    /\ regions = <<>>
    /\ groups = <<>>
    /\ channels = <<>>
    /\ playlist_content = <<>>
    /\ current_chno = 0
    /\ error = NoError
    /\ remote_catalog \in RemoteCatalogs
    /\ remote_epg \in RemoteEpgs
    /\ response = NoResponse
    /\ json_data = [json_ok |-> FALSE, value |-> NoData]
    /\ epg_content = <<>>
    /\ playlist_file = OldPlaylist
    /\ epg_file = OldEpg
    /\ readme_file = OldReadme
    /\ stdout = <<>>
    /\ trace = <<>>

\* the statements of main() in program order
MainOrderSaveBeforeEpg ==
    << "parse_config", "catalog_download", "catalog_decompress", "catalog_parse",
       "filter_channels", "generate_m3u_playlist",
       "makedirs", "playlist_open", "playlist_write",
       "epg_download", "epg_decompress", "epg_open", "epg_write",
       "readme_open", "readme_write", "report" >>

MainOrder ==
    << "parse_config", "catalog_download", "catalog_decompress", "catalog_parse",
       "filter_channels", "generate_m3u_playlist", "epg_download", "epg_decompress",
       "makedirs", "playlist_open", "playlist_write", "epg_open", "epg_write",
       "readme_open", "readme_write", "report" >>

PositionOf(label) == CHOOSE i \in 1..Len(MainOrder) : MainOrder[i] = label

\* the statement after label; "done" after the last
Succ(label) ==
    IF PositionOf(label) = Len(MainOrder) THEN "done" ELSE MainOrder[PositionOf(label) + 1]

\* main() is at statement label and executes it
At(label) == pc = label /\ trace' = Append(trace, label)

\* a retry loop around the failed statement
RaiseAndRetry(e) == pc' = pc /\ error' = e

\* an exception leaves the try block for the except clause (lines 189, 236)
Raise(e) == pc' = "except" /\ error' = e

\* the statement completes
Continue(label) == pc' = Succ(label) /\ error' = error

\* regions[0] if len(regions) == 1 and regions[0] != 'all' else 'all'
EpgRegion(rs) == IF Len(rs) = 1 /\ rs[1] # S_all THEN rs[1] ELSE S_all

\* data['regions'] raises KeyError when the catalog has no 'regions' key and
\* the selector is 'all' or names a region
FilterRaises(d, rs) == d.regions = <<>> /\ rs # <<>>

\* open(path, 'w') and f.write(text): the lines as given
WriteText(content) == content

\* open(path, 'w') and f.write(bytes decoded as text): '\n' becomes '\r\n'
RECURSIVE WriteTranslated(_)
WriteTranslated(content) ==
    IF content = <<>> THEN <<>>
    ELSE (IF Head(content) = 10 THEN <<13, 10>> ELSE <<Head(content)>>)
         \o WriteTranslated(Tail(content))

\* open(path, 'wb') and f.write(epg_content): the bytes as given
WriteBinary(content) == content

\* what a write that fails part-way leaves in the truncated file
Partial(content) ==
    {SubSeq(content, 1, k) : k \in 0..(IF content = <<>> THEN 0 ELSE Len(content) - 1)}

\* generate_readme(): the configuration of the run
ReadmeContent ==
    << [kind |-> "README",
        regions |-> DEFAULT_REGIONS,
        groups |-> IF DEFAULT_GROUPS # <<>> THEN DEFAULT_GROUPS ELSE <<65, 108, 108>>,
        include_drm |-> INCLUDE_DRM,
        start_chno |-> START_CHNO,
        sort_by |-> SORT_BY] >>

\* lines 191-192
RunParseConfig ==
    /\ At("parse_config")
    /\ regions' = ParseRegions(DEFAULT_REGIONS)
    /\ groups' = ParseGroups(DEFAULT_GROUPS)
    /\ Continue("parse_config")
    /\ UNCHANGED <<cfgvars, data, channels, playlist_content, current_chno,
                   netvars, filevars, stdout>>

\* download_and_decompress(APP_URL): requests.get, raise_for_status
DownloadCatalog ==
    /\ At("catalog_download")
    /\ \E net_ok \in BOOLEAN :
          IF net_ok
          THEN response' = remote_catalog /\ Continue("catalog_download")
          ELSE response' = response /\ Raise("NetworkError")
    /\ UNCHANGED <<cfgvars, data, regions, groups, channels, playlist_content,
                   current_chno, remote_catalog, remote_epg, json_data, epg_content,
                   filevars, stdout>>

\* download_and_decompress(APP_URL): gzip.GzipFile(...).read()
DecompressCatalog ==
    /\ At("catalog_decompress")
    /\ IF response.gzip_ok
       THEN json_data' = response.body /\ Continue("catalog_decompress")
       ELSE json_data' = json_data /\ Raise("BadGzipFile")
    /\ UNCHANGED <<cfgvars, data, regions, groups, channels, playlist_content,
                   current_chno, remote_catalog, remote_epg, response, epg_content,
                   filevars, stdout>>

\* get_channel_data(): json.loads(json_data)
ParseCatalog ==
    /\ At("catalog_parse")
    /\ IF json_data.json_ok
       THEN data' = json_data.value /\ Continue("catalog_parse")
       ELSE data' = data /\ Raise("JSONDecodeError")
    /\ UNCHANGED <<cfgvars, regions, groups, channels, playlist_content,
                   current_chno, netvars, filevars, stdout>>

\* channels = filter_channels(data, regions, groups)
RunFilter ==
    /\ At("filter_channels")
    /\ IF FilterRaises(data, regions)
       THEN channels' = channels /\ Raise("KeyError")
       ELSE channels' = filter_channels(data, regions, groups)
            /\ Continue("filter_channels")
    /\ UNCHANGED <<cfgvars, data, regions, groups, playlist_content,
                   current_chno, netvars, filevars, stdout>>

\* playlist_content = generate_m3u_playlist(data, channels)
RunGenerate ==
    /\ At("generate_m3u_playlist")
    /\ LET r == generate_m3u_playlist(data, channels)
       IN  /\ current_chno' = r.current_chno
           /\ IF r.err = NoError
              THEN playlist_content' = r.lines /\ Continue("generate_m3u_playlist")
              ELSE playlist_content' = playlist_content /\ Raise(r.err)
    /\ UNCHANGED <<cfgvars, data, regions, groups, channels, netvars, filevars, stdout>>

\* get_epg_data(epg_region): requests.get, raise_for_status
DownloadEpg ==
    /\ At("epg_download")
    /\ \E net_ok \in BOOLEAN :
          IF net_ok /\ EpgRegion(regions) \in KnownEpgRegions
          THEN response' = remote_epg /\ Continue("epg_download")
          ELSE response' = response /\ Raise("NetworkError")
    /\ UNCHANGED <<cfgvars, data, regions, groups, channels, playlist_content,
                   current_chno, remote_catalog, remote_epg, json_data, epg_content,
                   filevars, stdout>>

\* get_epg_data(epg_region): gzip.GzipFile(...).read()
DecompressEpg ==
    /\ At("epg_decompress")
    /\ IF response.gzip_ok
       THEN epg_content' = response.body /\ Continue("epg_decompress")
       ELSE epg_content' = epg_content /\ Raise("BadGzipFile")
    /\ UNCHANGED <<cfgvars, data, regions, groups, channels, playlist_content,
                   current_chno, remote_catalog, remote_epg, response, json_data,
                   filevars, stdout>>

\* save_files(): os.makedirs(OUTPUT_DIR, exist_ok=True)
MakeDirs ==
    /\ At("makedirs")
    /\ \E io_ok \in BOOLEAN :
          IF io_ok THEN Continue("makedirs") ELSE Raise("OSError")
    /\ UNCHANGED <<cfgvars, data, regions, groups, channels, playlist_content,
                   current_chno, netvars, filevars, stdout>>

\* save_files(): open(playlist_path, 'w') truncates the file
OpenPlaylist ==
    /\ At("playlist_open")
    /\ \E io_ok \in BOOLEAN :
          IF io_ok
          THEN playlist_file' = <<>> /\ Continue("playlist_open")
          ELSE playlist_file' = playlist_file /\ Raise("OSError")
    /\ UNCHANGED <<cfgvars, data, regions, groups, channels, playlist_content,
                   current_chno, netvars, epg_file, readme_file, stdout>>

\* save_files(): f.write(playlist_content), print
WritePlaylist ==
    /\ At("playlist_write")
    /\ \/ /\ playlist_file' = WriteText(playlist_content)
          /\ stdout' = Append(stdout, "Saved playlist")
          /\ Continue("playlist_write")
       \/ /\ playlist_file' \in Partial(WriteText(playlist_content))
          /\ stdout' = stdout
          /\ Raise("OSError")
    /\ UNCHANGED <<cfgvars, data, regions, groups, channels, playlist_content,
                   current_chno, netvars, epg_file, readme_file>>

\* save_files(): open(epg_path, 'wb') truncates the file
OpenEpg ==
    /\ At("epg_open")
    /\ \E io_ok \in BOOLEAN :
          IF io_ok
          THEN epg_file' = <<>> /\ Continue("epg_open")
          ELSE epg_file' = epg_file /\ Raise("OSError")
    /\ UNCHANGED <<cfgvars, data, regions, groups, channels, playlist_content,
                   current_chno, netvars, playlist_file, readme_file, stdout>>

\* save_files(): f.write(epg_content), print
WriteEpg ==
    /\ At("epg_write")
    /\ \/ /\ epg_file' = WriteBinary(epg_content)
          /\ stdout' = Append(stdout, "Saved EPG")
          /\ Continue("epg_write")
       \/ /\ epg_file' \in Partial(WriteBinary(epg_content))
          /\ stdout' = stdout
          /\ Raise("OSError")
    /\ UNCHANGED <<cfgvars, data, regions, groups, channels, playlist_content,
                   current_chno, netvars, playlist_file, readme_file>>

\* generate_readme(): open(readme_path, 'w') truncates the file
OpenReadme ==
    /\ At("readme_open")
    /\ \E io_ok \in BOOLEAN :
          IF io_ok
          THEN readme_file' = <<>> /\ Continue("readme_open")
          ELSE readme_file' = readme_file /\ Raise("OSError")
    /\ UNCHANGED <<cfgvars, data, regions, groups, channels, playlist_content,
                   current_chno, netvars, playlist_file, epg_file, stdout>>

\* generate_readme(): f.write(readme_content), print
WriteReadme ==
    /\ At("readme_write")
    /\ \/ /\ readme_file' = WriteText(ReadmeContent)
          /\ stdout' = Append(stdout, "Generated README")
          /\ Continue("readme_write")
       \/ /\ readme_file' \in Partial(WriteText(ReadmeContent))
          /\ stdout' = stdout
          /\ Raise("OSError")
    /\ UNCHANGED <<cfgvars, data, regions, groups, channels, playlist_content,
                   current_chno, netvars, playlist_file, epg_file>>

\* lines 222-234: the success message and the statistics
Report ==
    /\ At("report")
    /\ stdout' = stdout \o <<"Generation completed successfully!", "Statistics">>
    /\ Continue("report")
    /\ UNCHANGED <<cfgvars, data, regions, groups, channels, playlist_content,
                   current_chno, netvars, filevars>>

\* lines 236-238: print the error and re-raise; the process exits in failure
Except ==
    /\ pc = "except"
    /\ stdout' = Append(stdout, "Error")
    /\ pc' = "failed"
    /\ UNCHANGED <<cfgvars, data, regions, groups, channels, playlist_content,
                   current_chno, error, netvars, filevars, trace>>

Next ==
    \/ RunParseConfig
    \/ DownloadCatalog
    \/ DecompressCatalog
    \/ ParseCatalog
    \/ RunFilter
    \/ RunGenerate
    \/ DownloadEpg
    \/ DecompressEpg
    \/ MakeDirs
    \/ OpenPlaylist
    \/ WritePlaylist
    \/ OpenEpg
    \/ WriteEpg
    \/ OpenReadme
    \/ WriteReadme
    \/ Report
    \/ Except

Spec == Init /\ [][Next]_vars

(***************************************************************************)
(* Properties of a run of main() (checked under Spec)                      *)
(***************************************************************************)
Printed(msg) == InList(msg, stdout)

Executed(label) == InList(label, trace)

Failed == pc \in {"except", "failed"}

\* the statement that raised
FailedStage == trace[Len(trace)]

\* the statements from the EPG fetch up to the EPG write
EpgInHand ==
    {"makedirs", "playlist_open", "playlist_write", "epg_open", "epg_write"}

\* C8: in every run that reaches the EPG write, the bytes written to the EPG
\* file are the decompressed result of this run's EPG fetch: nothing between
\* the fetch and the write changes, truncates or replaces them.
C8_EpgPassthrough ==
    /\ pc \in EpgInHand => epg_content = remote_epg.body
    /\ Printed("Saved EPG") => epg_file = remote_epg.body

\* the EPG write has completed with a body that holds a line break
C8_Witness ==
    /\ Printed("Saved EPG")
    /\ epg_file = remote_epg.body
    /\ InList(10, epg_file)

IsPrefix(s, t) == Len(s) <= Len(t) /\ SubSeq(t, 1, Len(s)) = s

\* the statements of main() as the source orders them
ProgramOrder ==
    << "parse_config", "catalog_download", "catalog_decompress", "catalog_parse",
       "filter_channels", "generate_m3u_playlist", "epg_download", "epg_decompress",
       "makedirs", "playlist_open", "playlist_write", "epg_open", "epg_write",
       "readme_open", "readme_write", "report" >>

\* C9: an error in any stage aborts the run at that stage: the failed
\* operation is not retried, no later stage is executed, the error message is
\* printed and the process ends in failure; success is reported only if every
\* stage succeeded.
C9_ErrorAborts ==
    /\ IsPrefix(trace, ProgramOrder)
    /\ error # NoError => Failed
    /\ Failed => error # NoError
    /\ pc = "except" => ~Printed("Error")
    /\ pc = "failed" => Printed("Error")
    /\ Failed => ~Printed("Generation completed successfully!")
    /\ Printed("Generation completed successfully!") =>
          error = NoError /\ trace = ProgramOrder /\ pc = "done"
    /\ pc = "done" => Printed("Generation completed successfully!")

\* the EPG download failed after six statements succeeded, and the run ended
C9_Witness ==
    /\ pc = "failed"
    /\ FailedStage = "epg_download"
    /\ Len(trace) = 7
    /\ Printed("Error")

\* the statements before anything is written
BeforeWrites ==
    {"parse_config", "catalog_download", "catalog_decompress", "catalog_parse",
     "filter_channels", "generate_m3u_playlist", "epg_download", "epg_decompress",
     "makedirs"}

\* nothing written before both fetches succeeded, and the files written in
\* the order playlist, EPG, summary
WritesAfterFetchesInOrder ==
    /\ (pc \in BeforeWrites \/ (Failed /\ FailedStage \in BeforeWrites)) =>
          playlist_file = OldPlaylist /\ epg_file = OldEpg /\ readme_file = OldReadme
    /\ playlist_file # OldPlaylist =>
          Executed("catalog_parse") /\ Executed("epg_decompress")
    /\ epg_file # OldEpg => playlist_file = playlist_content
    /\ readme_file # OldReadme =>
          playlist_file = playlist_content /\ epg_file = epg_content

\* C10: no output file is written before both fetches have succeeded; a
\* failure before the writes leaves the three files with their pre-run
\* content; the files are written in the order playlist, EPG, summary, so a
\* failed EPG write leaves this run's playlist next to the previous EPG.
C10_FailedEpgWriteKeepsOldEpg ==
    /\ WritesAfterFetchesInOrder
    /\ (Failed /\ FailedStage \in {"epg_open", "epg_write"}) =>
          /\ playlist_file = playlist_content
          /\ epg_file = OldEpg
          /\ readme_file = OldReadme

\* C10 (amended): as C10, but a failed EPG write leaves this run's playlist
\* next to the previous EPG only when opening the EPG file failed; when the
\* write failed after the open truncated the file, the EPG file holds a proper
\* prefix (possibly empty) of this run's EPG bytes.
C10_FailedEpgWriteOldOrTruncated ==
    /\ WritesAfterFetchesInOrder
    /\ (Failed /\ FailedStage \in {"epg_open", "epg_write"}) =>
          /\ playlist_file = playlist_content
          /\ readme_file = OldReadme
          /\ FailedStage = "epg_open" => epg_file = OldEpg
          /\ FailedStage = "epg_write" =>
                /\ IsPrefix(epg_file, epg_content)
                /\ Len(epg_file) < Len(epg_content)

\* the EPG write failed part-way: this run's playlist, a truncated EPG
C10_Witness ==
    /\ pc = "failed"
    /\ FailedStage = "epg_write"
    /\ playlist_file = playlist_content
    /\ epg_file # OldEpg
    /\ Len(epg_file) >= 1
    /\ readme_file = OldReadme

====
